---- MODULE Spec2Model ----
(***************************************************************************)
(* State-machine model of the IMU orientation estimator of src/src/IMU.cpp *)
(* (class IMU): the three sensor handlers gyroReadingChanged,              *)
(* accReadingChanged and magReadingChanged, the quaternion utilities, the  *)
(* process and observation models and calculateOutputRotation.             *)
(*                                                                         *)
(* Numbers.  qreal values are held in fixed point:                         *)
(*   quaternions, unit vectors, noise terms R : 1/1000      (QS)           *)
(*   seconds (wDeltaT, startupTime)           : 1/1000000 s (SecondsUnit)  *)
(*   angular velocity                         : 1/1000 rad/s               *)
(*   acceleration, gravity                    : 1/100 m/s^2                *)
(*   magnetic flux                            : 1/100 microtesla           *)
(*   angles in radians                        : 1/1000 rad                 *)
(*   angles in degrees                        : 1/1000 degree              *)
(* Sensor inputs: gyro readings in whole degrees/s, accelerometer readings *)
(* in 1/100 m/s^2, magnetometer readings in 1/10000000 tesla.              *)
(* Timestamps are quint64 in the source; here they are unsigned integers   *)
(* of TimestampBits bits, with the same wrap-around subtraction.           *)
(***************************************************************************)
EXTENDS Integers, Sequences, FiniteSets, TLC

\* imu      : the members of the IMU object (and of its member `filter'), with the
\*            number of rotationChanged signals emitted so far
\* last     : the handler that ran last and whether it processed its sample
\* arrived  : per stream, how many samples have been delivered (0, 1, 2 = several)
\* magSince : whether a mag sample was delivered / processed since the last correction
\* accQuiet : the number of publishes run by other streams' handlers since the
\*            last processed accelerometer sample (or since construction)
\* gyroElapsed : the sum of the timestamp differences (in ticks) of the gyroscope
\*            samples processed while the estimator was in its startup phase
\* sample   : the reading of the sample just processed (<<>> when the handler
\*            skipped it), the reading of the last processed magnetometer sample,
\*            and the processed magnetometer reading it replaced before any
\*            correction had used it (<<>> when there is none)
\* steps    : the number of samples delivered, to bound the run
VARIABLES imu, last, arrived, magSince, accQuiet, gyroElapsed, sample, steps

vars == <<imu, last, arrived, magSince, accQuiet, gyroElapsed, sample, steps>>

(***************************************************************************)
(* Bounds of the model                                                     *)
(***************************************************************************)
MaxSteps == 5

TimestampBits == 21

TimestampModulus == 2 ^ TimestampBits

GyroTimestamps == {1000000, 1500000, 2000000}

AccTimestamps == {1000000, 2000000}

MagTimestamps == {0, 1000000, 2000000}

GyroReadings == {<<0, 0, 0>>, <<0, 0, 460>>}

AccReadings == {<<0, 0, 981>>, <<0, 0, -6078>>}

MagReadings == {<<200, 0, 400>>, <<0, 200, 400>>}

SensorIds == {"sensor0"}

(***************************************************************************)
(* Fixed-point arithmetic                                                  *)
(***************************************************************************)
QS == 1000

SecondsUnit == 1000000

Pi == 3142

EPSILON == 1

Abs(x) == IF x < 0 THEN -x ELSE x

\* division rounded to nearest, symmetric in the sign of a (b > 0)
RoundDiv(a, b) == IF a >= 0 THEN (a + b \div 2) \div b ELSE -((-a + b \div 2) \div b)

RECURSIVE SqrtIter(_, _)
SqrtIter(n, x) ==
    LET y == (x + n \div x) \div 2
    IN IF y >= x THEN x ELSE SqrtIter(n, y)

\* sqrt: integer square root (floor)
sqrt(n) == IF n <= 0 THEN 0 ELSE SqrtIter(n, n)

\* atan on [0, 1] (argument and result in 1/1000), error below 0.004 rad
AtanUnit(r) == RoundDiv(r * (785 + RoundDiv(273 * (QS - r), QS)), QS)

\* atan2(y, x) in 1/1000 rad, for y >= 0 the result is in [0, Pi]
Atan2Pos(y, x) ==
    IF x = 0 /\ y = 0 THEN 0
    ELSE IF Abs(x) >= y
         THEN LET t == AtanUnit(RoundDiv(y * QS, Abs(x)))
              IN IF x > 0 THEN t ELSE Pi - t
         ELSE LET t == AtanUnit(RoundDiv(Abs(x) * QS, y))
              IN IF x >= 0 THEN RoundDiv(Pi, 2) - t ELSE RoundDiv(Pi, 2) + t

atan2(y, x) == IF y >= 0 THEN Atan2Pos(y, x) ELSE -Atan2Pos(-y, x)

\* sin on [0, Pi] (argument in 1/1000 rad, result in 1/1000)
sin(x) ==
    LET p == x * (Pi - x)
        den == RoundDiv(5 * Pi * Pi - 4 * p, 100)
    IN IF x <= 0 \/ x >= Pi THEN 0
       ELSE RoundDiv(RoundDiv(16 * p, 100) * QS, den)

\* acos of a ratio in 1/1000, result in 1/1000 rad
acos(x) == atan2(sqrt(QS * QS - x * x), x)

qDegreesToRadians(d) == RoundDiv(d * 17453, 1000)

qRadiansToDegrees(r) == RoundDiv(r * 57296, 1000)

\* QVector3D::length
Length3(v) == sqrt(v[1] * v[1] + v[2] * v[2] + v[3] * v[3])

Dot4(p, q) == p[1] * q[1] + p[2] * q[2] + p[3] * q[3] + p[4] * q[4]

(***************************************************************************)
(* Quaternion utilities                                                    *)
(***************************************************************************)
normalizeQuat(q) ==
    LET norm == sqrt(Dot4(q, q))
    IN IF norm > EPSILON
       THEN <<RoundDiv(q[1] * QS, norm), RoundDiv(q[2] * QS, norm),
              RoundDiv(q[3] * QS, norm), RoundDiv(q[4] * QS, norm)>>
       ELSE <<QS, QS, QS, QS>>

\* mutation: the quaternion is stored in the history as it comes
shortestPathQuat_NeverNegates(prevQuat, quat) == [prevQuat |-> quat, quat |-> quat]

\* returns the new contents of both arguments
shortestPathQuat(prevQuat, quat) ==
    LET q == IF Dot4(quat, prevQuat) < 0
             THEN <<-quat[1], -quat[2], -quat[3], -quat[4]>>
             ELSE quat
    IN [prevQuat |-> q, quat |-> q]

(***************************************************************************)
(* Timestamps                                                              *)
(***************************************************************************)
\* (timestamp - lastTimestamp) on unsigned integers
UnsignedDiff(timestamp, lastTimestamp) ==
    (timestamp - lastTimestamp) % TimestampModulus

DeltaTDivisor == 1000000

\* mutation: the ticks are divided by 1000000000
ToDeltaT_Nanoseconds(ticks) == ticks \div (1000000000 \div SecondsUnit)

\* ((qreal)ticks)/1000000.0f, in 1/SecondsUnit seconds
ToDeltaT(ticks) ==
    (ticks \div DeltaTDivisor) * SecondsUnit
    + ((ticks % DeltaTDivisor) * (SecondsUnit \div 1000)) \div (DeltaTDivisor \div 1000)

(***************************************************************************)
(* Process model                                                           *)
(***************************************************************************)
\* 0.5f*wDeltaT*x for x in 1/1000 rad/s, result in 1/1000
HalfDeltaT(dt, x) == RoundDiv((dt \div 1000) * x, 2000)

\* diagonal entry of Q (1e-4f), in 1/1000000
Q == 100

calculateProcess(self) ==
    LET q0 == self.filter.statePost[1]
        q1 == self.filter.statePost[2]
        q2 == self.filter.statePost[3]
        q3 == self.filter.statePost[4]
        hx == HalfDeltaT(self.wDeltaT, self.w[1])
        hy == HalfDeltaT(self.wDeltaT, self.w[2])
        hz == HalfDeltaT(self.wDeltaT, self.w[3])
        f == <<q0 + RoundDiv(-q1 * hx - q2 * hy - q3 * hz, QS),
               q1 + RoundDiv( q0 * hx - q3 * hy + q2 * hz, QS),
               q2 + RoundDiv( q3 * hx + q0 * hy - q1 * hz, QS),
               q3 + RoundDiv(-q2 * hx + q1 * hy + q0 * hz, QS)>>
    IN [self EXCEPT
          !.process = normalizeQuat(f),
          !.filter.transitionMatrix =
              << <<QS, -hx, -hy, -hz>>,
                 <<hx,  QS,  hz, -hy>>,
                 <<hy, -hz,  QS,  hx>>,
                 <<hz,  hy, -hx,  QS>> >>,
          \* Q*wDeltaT: the diagonal entry, in 1/1000000
          !.filter.processNoiseCov = RoundDiv(Q * (self.wDeltaT \div 1000), 1000)]

(***************************************************************************)
(* Observation model                                                       *)
(***************************************************************************)
g == 981

R_g_startup == 100

R_y_startup == 1

R_g_k_0 == 1000

R_g_k_w == 7500

R_g_k_g == 10000

R_y_k_0 == 10000

R_y_k_w == 7500

R_y_k_g == 10000

R_y_k_n == 20000

R_y_k_d == 15000

m_mean_alpha == 990

ZeroRow == <<0, 0, 0, 0>>

\* calculateObservation up to the noise matrix (before the flag is cleared)
BuildObservation(self) ==
    LET q0 == self.filter.statePre[1]
        q1 == self.filter.statePre[2]
        q2 == self.filter.statePre[3]
        q3 == self.filter.statePre[4]
        R_DCM_z0 == RoundDiv(2 * (q1 * q3 - q0 * q2), QS)
        R_DCM_z1 == RoundDiv(2 * (q2 * q3 + q0 * q1), QS)
        R_DCM_z2 == RoundDiv(q0 * q0 - q1 * q1 - q2 * q2 + q3 * q3, QS)
        R_g == R_g_k_0 + RoundDiv(R_g_k_w * self.w_norm, 1000)
                 + RoundDiv(R_g_k_g * Abs(g - self.a_norm), 100)
        \* magnetometer branch
        dot_m_z == RoundDiv(self.m[1] * R_DCM_z0 + self.m[2] * R_DCM_z1
                              + self.m[3] * R_DCM_z2, QS)
        \* acos(dot_m_z/m_norm), NaN (0/0 or |ratio| > 1) replaced by 0
        m_dip_angle == IF self.m_norm = 0 \/ Abs(dot_m_z) > self.m_norm
                       THEN 0
                       ELSE acos(RoundDiv(dot_m_z * QS, self.m_norm))
        new_norm_mean == IF self.m_norm_mean < 0
                         THEN self.m_norm
                         ELSE RoundDiv(m_mean_alpha * self.m_norm_mean
                                         + (QS - m_mean_alpha) * self.m_norm, QS)
        new_dip_mean == IF self.m_dip_angle_mean < 0
                        THEN m_dip_angle
                        ELSE RoundDiv(m_mean_alpha * self.m_dip_angle_mean
                                        + (QS - m_mean_alpha) * m_dip_angle, QS)
        ux == self.m[1] - RoundDiv(dot_m_z * R_DCM_z0, QS)
        uy == self.m[2] - RoundDiv(dot_m_z * R_DCM_z1, QS)
        uz == self.m[3] - RoundDiv(dot_m_z * R_DCM_z2, QS)
        uy_norm == Length3(<<ux, uy, uz>>)
        \* unit vector in 1/1000; left unnormalised (1/100 -> 1/1000) otherwise
        mh == IF uy_norm > EPSILON
              THEN <<RoundDiv(ux * QS, uy_norm), RoundDiv(uy * QS, uy_norm),
                     RoundDiv(uz * QS, uy_norm)>>
              ELSE <<10 * ux, 10 * uy, 10 * uz>>
        R_y == IF self.magDataReady
               THEN R_y_k_0 + RoundDiv(R_y_k_w * self.w_norm, 1000)
                      + RoundDiv(R_y_k_g * Abs(g - self.a_norm), 100)
                      + RoundDiv(R_y_k_n * Abs(self.m_norm - new_norm_mean), 100)
                      + RoundDiv(R_y_k_d * Abs(m_dip_angle - new_dip_mean), 1000)
               ELSE 1000
        obs == IF self.magDataReady
               THEN <<self.a[1], self.a[2], self.a[3], mh[1], mh[2], mh[3]>>
               ELSE <<self.a[1], self.a[2], self.a[3], 0, 0, 0>>
        pred == IF self.magDataReady
                THEN <<RoundDiv(R_DCM_z0 * g, QS), RoundDiv(R_DCM_z1 * g, QS),
                       RoundDiv(R_DCM_z2 * g, QS),
                       RoundDiv(2 * (q1 * q2 + q0 * q3), QS),
                       RoundDiv(q0 * q0 - q1 * q1 + q2 * q2 - q3 * q3, QS),
                       RoundDiv(2 * (q2 * q3 - q0 * q1), QS)>>
                ELSE <<RoundDiv(R_DCM_z0 * g, QS), RoundDiv(R_DCM_z1 * g, QS),
                       RoundDiv(R_DCM_z2 * g, QS), 0, 0, 0>>
        G(x) == RoundDiv(2 * g * x, QS)
        H == << <<G(-q2), G( q3), G(-q0), G( q1)>>,
                <<G( q1), G( q0), G( q3), G( q2)>>,
                <<G( q0), G(-q1), G(-q2), G( q3)>> >>
             \o (IF self.magDataReady
                 THEN << << 2 * q3,  2 * q2, 2 * q1,  2 * q0>>,
                         << 2 * q0, -2 * q1, 2 * q2, -2 * q3>>,
                         <<-2 * q1, -2 * q0, 2 * q3,  2 * q2>> >>
                 ELSE <<ZeroRow, ZeroRow, ZeroRow>>)
        R == IF self.startupTime > 0
             THEN <<R_g_startup, R_g_startup, R_g_startup,
                    R_y_startup, R_y_startup, R_y_startup>>
             ELSE <<R_g, R_g, R_g, R_y, R_y, R_y>>
    IN [self EXCEPT
          !.observation = obs,
          !.predictedObservation = pred,
          !.m_norm_mean = IF self.magDataReady THEN new_norm_mean ELSE @,
          !.m_dip_angle_mean = IF self.magDataReady THEN new_dip_mean ELSE @,
          !.filter.observationMatrix = H,
          \* the diagonal of observationNoiseCov
          !.filter.observationNoiseCov = R]

\* mutation: the magnetometer data is not marked as consumed
calculateObservation_KeepsMag(self) == BuildObservation(self)

\* mutation: the startup noise is used while startupTime >= 0
calculateObservation_StartupInclusive(self) ==
    IF self.startupTime = 0
    THEN [BuildObservation([self EXCEPT !.startupTime = 1])
            EXCEPT !.magDataReady = FALSE, !.startupTime = 0]
    ELSE [BuildObservation(self) EXCEPT !.magDataReady = FALSE]

\* mutation: the noise is the adaptive one in the startup phase too
calculateObservation_AdaptiveOnly(self) ==
    [BuildObservation([self EXCEPT !.startupTime = 0])
       EXCEPT !.magDataReady = FALSE, !.startupTime = self.startupTime]

calculateObservation(self) == [BuildObservation(self) EXCEPT !.magDataReady = FALSE]

(***************************************************************************)
(* EKF kernel (class of the member `filter').  The covariance matrices are *)
(* not computed: errorCovPre and errorCovPost hold the number of times     *)
(* predict and correct have rewritten them, and the gain K of a correction *)
(* is Hᵀ weighted by one scalar per block of the diagonal S, drawn from    *)
(* KalmanGains (K = P Hᵀ S⁻¹ with P and S⁻¹ multiples of the identity on   *)
(* each block, which is their form at the first correction).               *)
(***************************************************************************)
\* gain scalars: acc in 1/1000000 (gravity rows), mag in 1/1000 (magnetic rows)
KalmanGains == {[acc |-> 722, mag |-> 71]}

\* x_prior <- f ; P_prior <- F P_post Fᵀ + Q_k
predict(filter, f) ==
    [filter EXCEPT !.statePre = f, !.errorCovPre = @ + 1]

\* column j of Hᵀ(z - h) restricted to the rows in rows
HtInnovation(filter, z, h, rows, j) ==
    LET term(r) == filter.observationMatrix[r][j] * (z[r] - h[r])
    IN term(rows[1]) + term(rows[2]) + term(rows[3])

\* x_post <- x_prior + K (z - h) ; P_post <- (I - K H) P_prior
correct(filter, z, h, gain) ==
    LET delta(j) ==
            RoundDiv(RoundDiv(HtInnovation(filter, z, h, <<1, 2, 3>>, j), 100)
                       * gain.acc, 100000)
            + RoundDiv(RoundDiv(HtInnovation(filter, z, h, <<4, 5, 6>>, j), 1000)
                         * gain.mag, 1000)
    IN [filter EXCEPT
          !.statePost = <<filter.statePre[1] + delta(1), filter.statePre[2] + delta(2),
                          filter.statePre[3] + delta(3), filter.statePre[4] + delta(4)>>,
          !.errorCovPost = @ + 1]

(***************************************************************************)
(* Output                                                                  *)
(***************************************************************************)
SilentCyclesLimit == 1000

\* the part of calculateOutputRotation after the startup check
ExportRotation(self) ==
    LET q == self.filter.statePost
        angle == 2 * atan2(sqrt(q[2] * q[2] + q[3] * q[3] + q[4] * q[4]), q[1])
        sTheta2 == sin(RoundDiv(angle, 2))
    IN IF angle < EPSILON
       THEN [self EXCEPT !.rotAxis = <<0, 0, 0>>, !.rotAngle = 0,
                         !.rotationChanged = @ + 1]
       ELSE [self EXCEPT
               !.rotAxis = <<RoundDiv(q[2] * sTheta2, QS), RoundDiv(q[3] * sTheta2, QS),
                             RoundDiv(q[4] * sTheta2, QS)>>,
               !.rotAngle = qRadiansToDegrees(angle),
               !.rotationChanged = @ + 1]

\* the silent-cycle bookkeeping of calculateOutputRotation
CountSilentCycles(self) ==
    [self EXCEPT
       !.gyroSilentCycles = @ + 1,
       !.accSilentCycles = IF self.accId = "" THEN @ ELSE @ + 1,
       !.magSilentCycles = IF self.magId = "" THEN @ ELSE @ + 1,
       \* the qDebug lines of this call
       !.log = (IF self.gyroSilentCycles + 1 > SilentCyclesLimit
                THEN {"gyro silent"} ELSE {})
               \cup (IF self.accId = "" THEN {"no acc"}
                     ELSE IF self.accSilentCycles + 1 > SilentCyclesLimit
                          THEN {"acc silent"} ELSE {})
               \cup (IF self.magId = "" THEN {"no mag"}
                     ELSE IF self.magSilentCycles + 1 > SilentCyclesLimit
                          THEN {"mag silent"} ELSE {})]

\* mutation: the counters are advanced before the gyroscope is looked for
calculateOutputRotation_CountFirst(self) ==
    LET counted == [CountSilentCycles(self) EXCEPT
                      !.gyroSilentCycles = IF self.gyroId = "" THEN self.gyroSilentCycles ELSE @]
    IN IF self.gyroId = "" THEN [counted EXCEPT !.log = {"gyro missing"}]
       ELSE IF self.startupTime > 0 THEN counted ELSE ExportRotation(counted)

\* mutation: startup lasts while startupTime >= 0
calculateOutputRotation_StartupInclusive(self) ==
    IF self.gyroId = ""
    THEN [self EXCEPT !.log = {"gyro missing"}]
    ELSE IF self.startupTime >= 0 THEN CountSilentCycles(self)
         ELSE ExportRotation(CountSilentCycles(self))

\* mutation: the output is given in the startup phase too
calculateOutputRotation_NoStartupCheck(self) ==
    IF self.gyroId = ""
    THEN [self EXCEPT !.log = {"gyro missing"}]
    ELSE ExportRotation(CountSilentCycles(self))

calculateOutputRotation(self) ==
    IF self.gyroId = ""
    THEN [self EXCEPT !.log = {"gyro missing"}]
    ELSE IF self.startupTime > 0 THEN CountSilentCycles(self)
         ELSE ExportRotation(CountSilentCycles(self))

(***************************************************************************)
(* Sensor handlers                                                         *)
(***************************************************************************)
\* the sample passes both tests of its handler
Accepts(lastTimestamp, timestamp) ==
    lastTimestamp > 0 /\ ToDeltaT(UnsignedDiff(timestamp, lastTimestamp)) > 0

\* mutation: the prior is not copied to the posterior
GyroStep_KeepsPosterior(self, reading) ==
    LET s1 == [self EXCEPT
                 !.gyroSilentCycles = 0,
                 !.startupTime = IF @ > 0 THEN @ - self.wDeltaT ELSE @,
                 !.w = <<qDegreesToRadians(reading[1]), qDegreesToRadians(reading[2]),
                         qDegreesToRadians(reading[3])>>]
        s2 == calculateProcess([s1 EXCEPT !.w_norm = Length3(s1.w)])
        s3 == [s2 EXCEPT !.filter = predict(s2.filter, s2.process)]
        aligned == shortestPathQuat(s3.statePreHistory, normalizeQuat(s3.filter.statePre))
        s4 == [s3 EXCEPT !.statePreHistory = aligned.prevQuat,
                         !.filter.statePre = aligned.quat]
    IN calculateOutputRotation(s4)

\* mutation: startupTime is counted down whether or not it is positive
GyroStep_CountsDownForever(self, reading) ==
    LET s1 == [self EXCEPT
                 !.gyroSilentCycles = 0,
                 !.startupTime = @ - self.wDeltaT,
                 !.w = <<qDegreesToRadians(reading[1]), qDegreesToRadians(reading[2]),
                         qDegreesToRadians(reading[3])>>]
        s2 == calculateProcess([s1 EXCEPT !.w_norm = Length3(s1.w)])
        s3 == [s2 EXCEPT !.filter = predict(s2.filter, s2.process)]
        aligned == shortestPathQuat(s3.statePreHistory, normalizeQuat(s3.filter.statePre))
        s4 == [s3 EXCEPT !.statePreHistory = aligned.prevQuat,
                         !.filter.statePre = aligned.quat,
                         !.filter.statePost = aligned.quat]
    IN calculateOutputRotation(s4)

\* the body of gyroReadingChanged under if(wDeltaT > 0)
GyroStep(self, reading) ==
    LET s1 == [self EXCEPT
                 !.gyroSilentCycles = 0,
                 !.startupTime = IF @ > 0 THEN @ - self.wDeltaT ELSE @,
                 !.w = <<qDegreesToRadians(reading[1]), qDegreesToRadians(reading[2]),
                         qDegreesToRadians(reading[3])>>]
        s2 == calculateProcess([s1 EXCEPT !.w_norm = Length3(s1.w)])
        s3 == [s2 EXCEPT !.filter = predict(s2.filter, s2.process)]
        aligned == shortestPathQuat(s3.statePreHistory, normalizeQuat(s3.filter.statePre))
        s4 == [s3 EXCEPT !.statePreHistory = aligned.prevQuat,
                         !.filter.statePre = aligned.quat,
                         !.filter.statePost = aligned.quat]
    IN calculateOutputRotation(s4)

\* mutation: a sample with wDeltaT = 0 is processed
gyroReadingChanged_AcceptsZero(self, timestamp, reading) ==
    IF self.lastGyroTimestamp > 0
    THEN LET s0 == [self EXCEPT
                      !.wDeltaT = ToDeltaT(UnsignedDiff(timestamp, self.lastGyroTimestamp))]
         IN IF s0.wDeltaT >= 0
            THEN [GyroStep(s0, reading) EXCEPT !.lastGyroTimestamp = timestamp]
            ELSE [s0 EXCEPT !.lastGyroTimestamp = timestamp]
    ELSE [self EXCEPT !.lastGyroTimestamp = timestamp]

gyroReadingChanged(self, timestamp, reading) ==
    IF self.lastGyroTimestamp > 0
    THEN LET s0 == [self EXCEPT
                      !.wDeltaT = ToDeltaT(UnsignedDiff(timestamp, self.lastGyroTimestamp))]
         IN IF s0.wDeltaT > 0
            THEN [GyroStep(s0, reading) EXCEPT !.lastGyroTimestamp = timestamp]
            ELSE [s0 EXCEPT !.lastGyroTimestamp = timestamp]
    ELSE [self EXCEPT !.lastGyroTimestamp = timestamp]

\* filter.correct(observation, predictedObservation)
Correct(self, gain) ==
    [self EXCEPT !.filter = correct(self.filter, self.observation,
                                    self.predictedObservation, gain)]

\* normalizeQuat(filter.statePost); shortestPathQuat(statePostHistory, filter.statePost)
AlignPosterior(self) ==
    LET aligned == shortestPathQuat(self.statePostHistory,
                                    normalizeQuat(self.filter.statePost))
    IN [self EXCEPT !.statePostHistory = aligned.prevQuat,
                    !.filter.statePost = aligned.quat]

\* mutation: the reading is not stored, the correction uses the previous one
AccStep_KeepsAcc(self, reading, gain) ==
    calculateOutputRotation(
        AlignPosterior(
            Correct(calculateObservation([self EXCEPT !.accSilentCycles = 0]), gain)))

\* the body of accReadingChanged under the two tests
AccStep(self, reading, gain) ==
    calculateOutputRotation(
        AlignPosterior(
            Correct(calculateObservation(
                        [self EXCEPT !.accSilentCycles = 0, !.a = reading,
                                     !.a_norm = Length3(reading)]),
                    gain)))

accReadingChanged(self, timestamp, reading, gain) ==
    IF Accepts(self.lastAccTimestamp, timestamp)
    THEN [AccStep(self, reading, gain) EXCEPT !.lastAccTimestamp = timestamp]
    ELSE [self EXCEPT !.lastAccTimestamp = timestamp]

\* mutation: a processed sample exports the rotation as the other handlers do
magReadingChanged_Publishes(self, timestamp, reading) ==
    IF Accepts(self.lastMagTimestamp, timestamp)
    THEN LET mvec == <<reading[1] * 10, reading[2] * 10, reading[3] * 10>>
         IN [calculateOutputRotation(
                 [self EXCEPT !.magSilentCycles = 0, !.m = mvec, !.m_norm = Length3(mvec),
                              !.magDataReady = TRUE])
               EXCEPT !.lastMagTimestamp = timestamp]
    ELSE [self EXCEPT !.lastMagTimestamp = timestamp]

\* mutation: every sample, the first one included, is stored and marked fresh
magReadingChanged_AlwaysFresh(self, timestamp, reading) ==
    LET mvec == <<reading[1] * 10, reading[2] * 10, reading[3] * 10>>
    IN [self EXCEPT !.magSilentCycles = 0, !.m = mvec, !.m_norm = Length3(mvec),
                    !.magDataReady = TRUE, !.lastMagTimestamp = timestamp]

magReadingChanged(self, timestamp, reading) ==
    IF Accepts(self.lastMagTimestamp, timestamp)
    THEN LET mvec == <<reading[1] * 10, reading[2] * 10, reading[3] * 10>>
         IN [self EXCEPT !.magSilentCycles = 0, !.m = mvec, !.m_norm = Length3(mvec),
                         !.magDataReady = TRUE, !.lastMagTimestamp = timestamp]
    ELSE [self EXCEPT !.lastMagTimestamp = timestamp]

(***************************************************************************)
(* Construction                                                            *)
(***************************************************************************)
Identity == <<QS, 0, 0, 0>>

\* members the constructor's initialiser list leaves out (declared in IMU.h)
UnsetReal == 0

\* the object after IMU::IMU, for the sensors the platform let it open
Constructed(gid, aid, mid) ==
    [gyroId |-> gid, accId |-> aid, magId |-> mid,
     lastGyroTimestamp |-> 0, lastAccTimestamp |-> 0, lastMagTimestamp |-> 0,
     gyroSilentCycles |-> 0, accSilentCycles |-> 0, magSilentCycles |-> 0,
     startupTime |-> SecondsUnit,
     magDataReady |-> FALSE, m_norm_mean |-> -QS, m_dip_angle_mean |-> -QS,
     w |-> <<0, 0, 0>>, a |-> <<0, 0, 0>>, m |-> <<0, 0, 0>>,
     w_norm |-> UnsetReal, a_norm |-> UnsetReal, m_norm |-> UnsetReal,
     wDeltaT |-> UnsetReal,
     rotAxis |-> <<0, 0, 0>>, rotAngle |-> UnsetReal,
     process |-> Identity, statePreHistory |-> Identity, statePostHistory |-> Identity,
     observation |-> <<0, 0, g, 0, QS, 0>>,
     predictedObservation |-> <<0, 0, g, 0, QS, 0>>,
     filter |-> [statePre |-> Identity, statePost |-> Identity,
                 errorCovPre |-> 0, errorCovPost |-> 0,
                 transitionMatrix |-> << <<QS, 0, 0, 0>>, <<0, QS, 0, 0>>,
                                         <<0, 0, QS, 0>>, <<0, 0, 0, QS>> >>,
                 processNoiseCov |-> 0,
                 observationMatrix |-> <<ZeroRow, ZeroRow, ZeroRow, ZeroRow, ZeroRow, ZeroRow>>,
                 observationNoiseCov |-> <<0, 0, 0, 0, 0, 0>>],
     \* number of rotationChanged signals emitted, and what the last publish logged
     rotationChanged |-> 0, log |-> {}]

\* no sample has been delivered
NothingDelivered ==
    /\ last = [op |-> "init", accepted |-> FALSE]
    /\ arrived = [gyro |-> 0, acc |-> 0, mag |-> 0]
    /\ magSince = [any |-> FALSE, accepted |-> FALSE]
    /\ accQuiet = 0
    /\ gyroElapsed = 0
    /\ sample = [now |-> <<>>, mag |-> <<>>, dropped |-> <<>>]
    /\ steps = 0

Init ==
    /\ \E gid \in SensorIds \cup {""}, aid \in SensorIds \cup {""}, mid \in SensorIds \cup {""} :
           imu = Constructed(gid, aid, mid)
    /\ NothingDelivered

\* what w_norm, which the initialiser list leaves out, may hold after construction
\* (in 1/1000 rad/s)
UnsetNorms == {-1000, 0}

\* the object after IMU::IMU with w_norm holding whatever its storage held
InitUnset ==
    /\ \E gid \in SensorIds \cup {""}, aid \in SensorIds \cup {""}, mid \in SensorIds \cup {""},
          n \in UnsetNorms :
           imu = [Constructed(gid, aid, mid) EXCEPT !.w_norm = n]
    /\ NothingDelivered

(***************************************************************************)
(* Actions                                                                 *)
(***************************************************************************)
Seen(n) == IF n < 2 THEN n + 1 ELSE 2

\* the gyroscope's readingChanged signal runs gyroReadingChanged
GyroDelivered(timestamp, reading) ==
    /\ imu.gyroId # ""
    /\ imu' = gyroReadingChanged(imu, timestamp, reading)
    /\ last' = [op |-> "gyro", accepted |-> Accepts(imu.lastGyroTimestamp, timestamp)]
    /\ arrived' = [arrived EXCEPT !.gyro = Seen(@)]
    /\ accQuiet' = IF Accepts(imu.lastGyroTimestamp, timestamp)
                   THEN accQuiet + 1 ELSE accQuiet
    /\ gyroElapsed' = IF Accepts(imu.lastGyroTimestamp, timestamp) /\ imu.startupTime > 0
                      THEN gyroElapsed + UnsignedDiff(timestamp, imu.lastGyroTimestamp)
                      ELSE gyroElapsed
    /\ sample' = [sample EXCEPT !.now = IF Accepts(imu.lastGyroTimestamp, timestamp)
                                        THEN reading ELSE <<>>]
    /\ UNCHANGED magSince

\* a gyroscope sample is delivered
GyroArrives(timestamp, reading) ==
    /\ steps < MaxSteps
    /\ GyroDelivered(timestamp, reading)
    /\ steps' = steps + 1

\* an accelerometer sample is delivered; gain is the weighting the kernel applies
AccDelivered(timestamp, reading, gain) ==
    /\ imu.accId # ""
    /\ imu' = accReadingChanged(imu, timestamp, reading, gain)
    /\ last' = [op |-> "acc", accepted |-> Accepts(imu.lastAccTimestamp, timestamp)]
    /\ magSince' = IF Accepts(imu.lastAccTimestamp, timestamp)
                   THEN [any |-> FALSE, accepted |-> FALSE]
                   ELSE magSince
    /\ arrived' = [arrived EXCEPT !.acc = Seen(@)]
    /\ accQuiet' = IF Accepts(imu.lastAccTimestamp, timestamp) THEN 0 ELSE accQuiet
    /\ sample' = [sample EXCEPT !.now = IF Accepts(imu.lastAccTimestamp, timestamp)
                                        THEN reading ELSE <<>>]
    /\ UNCHANGED gyroElapsed

AccArrives(timestamp, reading, gain) ==
    /\ steps < MaxSteps
    /\ AccDelivered(timestamp, reading, gain)
    /\ steps' = steps + 1

\* the magnetometer's readingChanged signal runs magReadingChanged
MagDelivered(timestamp, reading) ==
    /\ imu.magId # ""
    /\ imu' = magReadingChanged(imu, timestamp, reading)
    /\ last' = [op |-> "mag", accepted |-> Accepts(imu.lastMagTimestamp, timestamp)]
    /\ magSince' = [any |-> TRUE,
                    accepted |-> magSince.accepted
                                   \/ Accepts(imu.lastMagTimestamp, timestamp)]
    /\ arrived' = [arrived EXCEPT !.mag = Seen(@)]
    /\ sample' = IF Accepts(imu.lastMagTimestamp, timestamp)
                 THEN [now |-> reading, mag |-> reading,
                       dropped |-> IF magSince.accepted THEN sample.mag ELSE <<>>]
                 ELSE [sample EXCEPT !.now = <<>>]
    /\ UNCHANGED <<accQuiet, gyroElapsed>>

\* a magnetometer sample is delivered
MagArrives(timestamp, reading) ==
    /\ steps < MaxSteps
    /\ MagDelivered(timestamp, reading)
    /\ steps' = steps + 1

GyroSample ==
    \E timestamp \in GyroTimestamps, reading \in GyroReadings :
        GyroArrives(timestamp, reading)

AccSample ==
    \E timestamp \in AccTimestamps, reading \in AccReadings, gain \in KalmanGains :
        AccArrives(timestamp, reading, gain)

MagSample ==
    \E timestamp \in MagTimestamps, reading \in MagReadings :
        MagArrives(timestamp, reading)

Next ==
    \/ GyroSample
    \/ AccSample
    \/ MagSample

Spec == Init /\ [][Next]_vars

(***************************************************************************)
(* The same estimator fed by well-behaved sensors: within each stream the  *)
(* timestamps increase strictly, and the device lies level and at rest as  *)
(* far as the accelerometer can tell (it reads gravity on its z axis).     *)
(***************************************************************************)
OrderedGyroSample ==
    \E timestamp \in GyroTimestamps, reading \in GyroReadings :
        /\ timestamp > imu.lastGyroTimestamp
        /\ GyroArrives(timestamp, reading)

OrderedAccSample ==
    \E timestamp \in AccTimestamps, gain \in KalmanGains :
        /\ timestamp > imu.lastAccTimestamp
        /\ AccArrives(timestamp, <<0, 0, g>>, gain)

OrderedMagSample ==
    \E timestamp \in MagTimestamps \ {0}, reading \in MagReadings :
        /\ timestamp > imu.lastMagTimestamp
        /\ MagArrives(timestamp, reading)

NextInOrder ==
    \/ OrderedGyroSample
    \/ OrderedAccSample
    \/ OrderedMagSample

SpecInOrder == Init /\ [][NextInOrder]_vars

(***************************************************************************)
(* The same estimator from a construction that left w_norm unset, run for  *)
(* MaxLongSteps samples, enough for a correction with fresh magnetometer   *)
(* data after the startup phase; the samples carry one of two timestamps.  *)
(***************************************************************************)
MaxLongSteps == 6

LongTimestamps == {1000000, 2000000}

LongGyroArrives(timestamp, reading) ==
    /\ steps < MaxLongSteps
    /\ GyroDelivered(timestamp, reading)
    /\ steps' = steps + 1

LongAccArrives(timestamp, reading, gain) ==
    /\ steps < MaxLongSteps
    /\ AccDelivered(timestamp, reading, gain)
    /\ steps' = steps + 1

LongMagArrives(timestamp, reading) ==
    /\ steps < MaxLongSteps
    /\ MagDelivered(timestamp, reading)
    /\ steps' = steps + 1

LongGyroSample ==
    \E timestamp \in LongTimestamps, reading \in GyroReadings :
        LongGyroArrives(timestamp, reading)

LongAccSample ==
    \E timestamp \in LongTimestamps, reading \in AccReadings, gain \in KalmanGains :
        LongAccArrives(timestamp, reading, gain)

LongMagSample ==
    \E timestamp \in LongTimestamps :
        LongMagArrives(timestamp, <<200, 0, 400>>)

NextLong ==
    \/ LongGyroSample
    \/ LongAccSample
    \/ LongMagSample

SpecUnset == InitUnset /\ [][NextLong]_vars

(***************************************************************************)
(* The same estimator run for long enough for a stream to be reported      *)
(* silent.  The gyroscope delivers a device at rest, its samples stamped   *)
(* 1000000 and 2000000 in turn, for as long as the accelerometer has been  *)
(* quiet for fewer than MaxSilentCycles publishes.  The accelerometer      *)
(* delivers at most MaxAccSamples samples, stamped likewise, each of them  *)
(* either right after its previous one or when it is about to be (or has   *)
(* been) reported silent.  The magnetometer delivers nothing.              *)
(***************************************************************************)
MaxSilentCycles == 1003

MaxAccSamples == 2

\* the timestamp that follows lastTimestamp on a stream whose samples are
\* stamped 1000000 and 2000000 in turn
QuietTimestamp(lastTimestamp) == IF lastTimestamp = 1000000 THEN 2000000 ELSE 1000000

QuietGyroArrives(timestamp, reading) ==
    /\ accQuiet < MaxSilentCycles
    /\ GyroDelivered(timestamp, reading)
    /\ UNCHANGED steps

QuietAccArrives(timestamp, reading, gain) ==
    /\ steps < MaxAccSamples
    /\ accQuiet <= 1 \/ accQuiet >= SilentCyclesLimit - 1
    /\ AccDelivered(timestamp, reading, gain)
    /\ steps' = steps + 1

QuietGyroSample == QuietGyroArrives(QuietTimestamp(imu.lastGyroTimestamp), <<0, 0, 0>>)

QuietAccSample ==
    \E gain \in KalmanGains :
        QuietAccArrives(QuietTimestamp(imu.lastAccTimestamp), <<0, 0, g>>, gain)

NextSilence ==
    \/ QuietGyroSample
    \/ QuietAccSample

SpecSilence == Init /\ [][NextSilence]_vars

(***************************************************************************)
(* Properties                                                              *)
(***************************************************************************)
\* what a step did, read off the kernel's covariance revisions and the signal count
PredictRan == imu'.filter.errorCovPre # imu.filter.errorCovPre

CorrectRan == imu'.filter.errorCovPost # imu.filter.errorCovPost

Published == PredictRan \/ CorrectRan

Emitted == imu'.rotationChanged = imu.rotationChanged + 1

OutputsKept ==
    /\ imu'.rotationChanged = imu.rotationChanged
    /\ imu'.rotAxis = imu.rotAxis
    /\ imu'.rotAngle = imu.rotAngle

\* the counters after a publish that did its bookkeeping: the handler's own
\* stream was reset before it, every open stream is advanced by it
BookkeepingDone ==
    /\ imu'.gyroSilentCycles = IF PredictRan THEN 1
                               ELSE IF imu.gyroId = "" THEN imu.gyroSilentCycles
                               ELSE imu.gyroSilentCycles + 1
    /\ imu'.accSilentCycles = IF CorrectRan THEN 1
                              ELSE IF imu.accId = "" THEN imu.accSilentCycles
                              ELSE imu.accSilentCycles + 1
    /\ imu'.magSilentCycles = IF imu.magId = "" THEN imu.magSilentCycles
                              ELSE imu.magSilentCycles + 1

\* the counters after a publish that returned before its bookkeeping
BookkeepingSkipped ==
    /\ imu'.gyroSilentCycles = imu.gyroSilentCycles
    /\ imu'.accSilentCycles = 0
    /\ imu'.magSilentCycles = imu.magSilentCycles

\* C1 as stated: a publish that runs while startupTime > 0 emits nothing,
\* leaves rotAxis and rotAngle alone and still advances the silent-cycle counters.
C1_Original ==
    [][(Published /\ imu'.startupTime > 0) => (OutputsKept /\ BookkeepingDone)]_vars

\* C1 (amended): a publish that runs while startupTime > 0 emits nothing and
\* leaves rotAxis and rotAngle alone; it advances the silent-cycle counters when
\* a gyroscope is open, and touches no counter when none is.
C1_StartupSilent ==
    [][(Published /\ imu'.startupTime > 0)
         => /\ OutputsKept
            /\ imu.gyroId # "" => BookkeepingDone
            /\ imu.gyroId = "" => BookkeepingSkipped]_vars

C1_Witness ==
    /\ last = [op |-> "acc", accepted |-> TRUE]
    /\ imu.startupTime > 0
    /\ imu.gyroId # ""
    /\ imu.accSilentCycles = 1
    /\ imu.gyroSilentCycles >= 1
    /\ imu.rotationChanged = 0

\* C2: outside startup every accepted gyro step and every accepted accel step
\* emits exactly one rotationChanged, the step that ends startup included.
C2_EmitsAfterStartup ==
    [][(Published /\ imu'.startupTime <= 0 /\ imu'.gyroId # "") => Emitted]_vars

C2_Witness ==
    /\ last = [op |-> "gyro", accepted |-> TRUE]
    /\ imu.startupTime = 0
    /\ imu.filter.errorCovPre = 2
    /\ imu.rotationChanged = 1

C4_PublishedContinuity ==
    [][(imu.rotationChanged >= 1 /\ Emitted)
         => Dot4(imu.filter.statePost, imu'.filter.statePost) >= 0]_vars

Fallback == <<QS, QS, QS, QS>>

UnitOrIdentity(q) == q = Identity \/ Abs(sqrt(Dot4(q, q)) - QS) <= 2

Estimate(s) ==
    <<s.filter.statePre, s.filter.statePost, s.filter.errorCovPre, s.filter.errorCovPost,
      s.statePreHistory, s.statePostHistory, s.startupTime, s.magDataReady,
      s.gyroSilentCycles, s.accSilentCycles, s.magSilentCycles,
      s.rotAxis, s.rotAngle, s.rotationChanged>>

\* C6 as stated: a sample whose timestamp is earlier than the previous one of
\* its stream is dropped: no predict, no correct, no mag-fresh set, no publish.
C6_OutOfOrderDropped ==
    [][(\/ last'.op = "gyro" /\ imu'.lastGyroTimestamp < imu.lastGyroTimestamp
        \/ last'.op = "acc" /\ imu'.lastAccTimestamp < imu.lastAccTimestamp
        \/ last'.op = "mag" /\ imu'.lastMagTimestamp < imu.lastMagTimestamp)
         => Estimate(imu') = Estimate(imu)]_vars

\* C7: a gyro sample carrying the timestamp of the previous gyro sample changes
\* nothing but wDeltaT, which it sets to 0.
C7_ZeroDeltaNoOp ==
    [][(last'.op = "gyro" /\ arrived.gyro >= 1
          /\ imu'.lastGyroTimestamp = imu.lastGyroTimestamp)
         => /\ [imu' EXCEPT !.wDeltaT = imu.wDeltaT] = imu
            /\ imu'.lastGyroTimestamp > 0 => imu'.wDeltaT = 0]_vars

C7_Witness ==
    /\ last = [op |-> "gyro", accepted |-> FALSE]
    /\ imu.filter.errorCovPre >= 1
    /\ imu.wDeltaT = 0

\* C8 as stated: the first sample of a stream, and only the first, is skipped;
\* a later sample whose timestamp exceeds its predecessor's is processed with
\* the difference of the two as deltaT.
C8_OnlyFirstSkipped ==
    [][/\ (last'.op = "gyro" /\ arrived.gyro = 0) => ~PredictRan
       /\ (last'.op = "acc" /\ arrived.acc = 0) => ~CorrectRan
       /\ (last'.op = "mag" /\ arrived.mag = 0) => ~imu'.magDataReady
       /\ (last'.op = "gyro" /\ arrived.gyro >= 1
             /\ imu'.lastGyroTimestamp > imu.lastGyroTimestamp)
            => /\ PredictRan
               /\ imu'.wDeltaT = ToDeltaT(imu'.lastGyroTimestamp - imu.lastGyroTimestamp)
       /\ (last'.op = "acc" /\ arrived.acc >= 1
             /\ imu'.lastAccTimestamp > imu.lastAccTimestamp) => CorrectRan
       /\ (last'.op = "mag" /\ arrived.mag >= 1
             /\ imu'.lastMagTimestamp > imu.lastMagTimestamp) => imu'.magDataReady]_vars

\* C9 as stated: mag-fresh is true iff a mag sample has arrived since the last
\* correction step (or since construction).
C9_Original == imu.magDataReady <=> magSince.any

\* C9 (amended): mag-fresh is true iff a mag sample that its handler processed
\* (lastMagTimestamp > 0 and a non-zero unsigned timestamp difference) has
\* arrived since the last correction step (or since construction).
C9_FreshIffProcessed == imu.magDataReady <=> magSince.accepted

C9_Witness ==
    /\ imu.magDataReady
    /\ magSince.accepted
    /\ imu.filter.errorCovPost >= 1
    /\ imu.m_norm_mean >= 0

MagBlock(s) == s.filter.observationMatrix[4] # ZeroRow

\* C10: a correction step leaves mag-fresh false, gyro and accel samples never
\* set it, and a correction has a magnetic block (non-zero H3..H5) only if
\* mag-fresh was true before it.
C10_MagConsumedOnce ==
    [][/\ CorrectRan => ~imu'.magDataReady
       /\ (last'.op \in {"gyro", "acc"} /\ ~imu.magDataReady) => ~imu'.magDataReady
       /\ (CorrectRan /\ MagBlock(imu')) => imu.magDataReady]_vars

C10_Witness ==
    /\ imu.filter.errorCovPost >= 2
    /\ imu.m_norm_mean >= 0
    /\ ~MagBlock(imu)
    /\ ~imu.magDataReady
    /\ ~magSince.any

\* C11 as stated: a stream's silent-cycle counter does not decrease over a step
\* that is not a sample of that stream, and it is 0 after the handler of a
\* processed sample of that stream has run.
C11_CountersResetToZero ==
    [][/\ last'.op # "gyro" => imu'.gyroSilentCycles >= imu.gyroSilentCycles
       /\ last'.op # "acc" => imu'.accSilentCycles >= imu.accSilentCycles
       /\ last'.op # "mag" => imu'.magSilentCycles >= imu.magSilentCycles
       /\ (last'.op = "gyro" /\ last'.accepted) => imu'.gyroSilentCycles = 0
       /\ (last'.op = "acc" /\ last'.accepted) => imu'.accSilentCycles = 0
       /\ (last'.op = "mag" /\ last'.accepted) => imu'.magSilentCycles = 0]_vars

\* the step is what it would have been with the accelerometer just heard from,
\* but for the accelerometer's counter and the log
AccSilenceHarmless ==
    \E reading \in GyroReadings :
        LET heard == gyroReadingChanged([imu EXCEPT !.accSilentCycles = 0],
                                        imu'.lastGyroTimestamp, reading)
        IN imu' = [heard EXCEPT !.accSilentCycles = imu'.accSilentCycles,
                                !.log = imu'.log]

\* C12 as stated: with the accelerometer open, a publish logs the accel-silence
\* warning exactly when 1001 or more publishes have run without an accel sample
\* since the last processed accel sample; the warning changes no estimator
\* state, and every processed gyro sample still runs predict and, outside
\* startup, emits rotationChanged.
C12_AccSilenceWarning ==
    [][/\ (Published /\ imu.accId # "")
          => ("acc silent" \in imu'.log <=> accQuiet' >= SilentCyclesLimit + 1)
       /\ (Published /\ "acc silent" \in imu'.log) => AccSilenceHarmless
       /\ (last'.op = "gyro" /\ last'.accepted)
          => /\ PredictRan
             /\ imu'.startupTime <= 0 => Emitted]_vars

\* the timestamp difference of the gyro sample just handled
GyroTicks == UnsignedDiff(imu'.lastGyroTimestamp, imu.lastGyroTimestamp)

C14_StartupOneWay ==
    [][/\ imu'.startupTime <= imu.startupTime
       /\ imu'.startupTime # imu.startupTime
            => (last'.op = "gyro" /\ last'.accepted /\ imu.startupTime > 0)
       /\ imu.startupTime <= 0 => imu'.startupTime <= 0]_vars

C14_Witness ==
    /\ last = [op |-> "gyro", accepted |-> TRUE]
    /\ imu.startupTime <= 0
    /\ imu.rotationChanged >= 2
    /\ arrived.acc = 2

\* the process artifacts of a gyro reading and a timestamp difference, from the
\* posterior of s
ProcessOf(s, reading, ticks) ==
    calculateProcess([s EXCEPT
        !.w = <<qDegreesToRadians(reading[1]), qDegreesToRadians(reading[2]),
                qDegreesToRadians(reading[3])>>,
        !.wDeltaT = ToDeltaT(ticks)])

\* the observation of an accel reading and, when fresh is true, a mag reading,
\* from the prior of s
ObservationOf(s, acc, mag, fresh) ==
    LET mvec == IF fresh THEN <<mag[1] * 10, mag[2] * 10, mag[3] * 10>> ELSE <<0, 0, 0>>
    IN BuildObservation([s EXCEPT !.a = acc, !.a_norm = Length3(acc), !.m = mvec,
                                  !.m_norm = Length3(mvec), !.magDataReady = fresh])

\* C15: a gyro sample runs predict, once, exactly when its own stream's tests
\* pass, with the process value and transition matrix of that sample's reading
\* and timestamp difference; an accel sample runs correct, once, exactly when
\* its own stream's tests pass, on the observation of that sample's reading and,
\* iff mag-fresh, of the last processed mag reading; no other step runs either.
C15_OneStepPerSample ==
    [][/\ PredictRan <=> (last'.op = "gyro"
                            /\ Accepts(imu.lastGyroTimestamp, imu'.lastGyroTimestamp))
       /\ CorrectRan <=> (last'.op = "acc"
                            /\ Accepts(imu.lastAccTimestamp, imu'.lastAccTimestamp))
       /\ PredictRan
            => /\ imu'.filter.errorCovPre = imu.filter.errorCovPre + 1
               /\ ~CorrectRan
               /\ imu'.process = ProcessOf(imu, sample'.now, GyroTicks).process
               /\ imu'.filter.transitionMatrix
                    = ProcessOf(imu, sample'.now, GyroTicks).filter.transitionMatrix
       /\ CorrectRan
            => /\ imu'.filter.errorCovPost = imu.filter.errorCovPost + 1
               /\ ~PredictRan
               /\ imu'.observation
                    = ObservationOf(imu, sample'.now, sample.mag, imu.magDataReady).observation
               /\ MagBlock(imu') <=> imu.magDataReady]_vars

C15_Witness ==
    /\ last = [op |-> "acc", accepted |-> TRUE]
    /\ MagBlock(imu)
    /\ sample.dropped # <<>>
    /\ sample.dropped # sample.mag
    /\ imu.observation[4] # 0

\* C16: after every processed gyro step the posterior, the prior and the prior
\* history are one quaternion, the normalized process value of that step up to
\* sign, and outside startup the outputs are the axis and angle of it.
C16_PosteriorIsPrior ==
    [][(last'.op = "gyro" /\ last'.accepted)
         => LET q == normalizeQuat(ProcessOf(imu, sample'.now, GyroTicks).process)
            IN /\ imu'.filter.statePost = imu'.filter.statePre
               /\ imu'.filter.statePre = imu'.statePreHistory
               /\ imu'.filter.statePre \in {q, <<-q[1], -q[2], -q[3], -q[4]>>}
               /\ imu'.startupTime <= 0
                    => /\ Emitted
                       /\ imu'.rotAngle = ExportRotation(imu').rotAngle
                       /\ imu'.rotAxis = ExportRotation(imu').rotAxis]_vars

C16_Witness ==
    /\ last = [op |-> "gyro", accepted |-> TRUE]
    /\ imu.filter.errorCovPost = 0
    /\ imu.filter.statePost = imu.filter.statePre
    /\ imu.filter.statePost # Identity
    /\ imu.rotationChanged >= 1
    /\ imu.rotAngle > 0

\* C17: a mag sample runs no predict, no correct and no publish: it changes at
\* most m, m_norm, magDataReady, magSilentCycles and lastMagTimestamp, and
\* every other member (prior, posterior, covariances, startupTime, the other
\* counters, the magnetic means, the outputs, the signal count) stays as it was.
C17_MagSampleFrame ==
    [][last'.op = "mag"
         => /\ imu = [imu' EXCEPT !.m = imu.m, !.m_norm = imu.m_norm,
                                  !.magDataReady = imu.magDataReady,
                                  !.magSilentCycles = imu.magSilentCycles,
                                  !.lastMagTimestamp = imu.lastMagTimestamp]
            /\ ~PredictRan /\ ~CorrectRan /\ ~Emitted]_vars

C17_Witness ==
    /\ last = [op |-> "mag", accepted |-> TRUE]
    /\ imu.magDataReady
    /\ imu.magSilentCycles = 0
    /\ imu.gyroSilentCycles = 1
    /\ imu.filter.errorCovPre >= 1
    /\ imu.rotationChanged >= 1
    /\ imu.m_norm > 0

\* C18: at the end of a processed gyro step the prior has a non-negative dot
\* product with the prior history of before the step, at the end of a processed
\* accel step the posterior has one with the posterior history of before the
\* step, and the history is then the quaternion aligned against it.
C18_PerPhaseContinuity ==
    [][/\ (last'.op = "gyro" /\ last'.accepted)
            => /\ Dot4(imu'.filter.statePre, imu.statePreHistory) >= 0
               /\ imu'.statePreHistory = imu'.filter.statePre
               /\ imu'.statePostHistory = imu.statePostHistory
       /\ (last'.op = "acc" /\ last'.accepted)
            => /\ Dot4(imu'.filter.statePost, imu.statePostHistory) >= 0
               /\ imu'.statePostHistory = imu'.filter.statePost
               /\ imu'.statePreHistory = imu.statePreHistory]_vars

\* a correction whose posterior was negated to follow the posterior history
C18_Witness ==
    /\ last = [op |-> "acc", accepted |-> TRUE]
    /\ imu.statePostHistory = imu.filter.statePost
    /\ Dot4(imu.filter.statePost, imu.filter.statePre) < 0
    /\ Dot4(imu.filter.statePost, imu.filter.statePost) > 0

\* C19: every correction is handed an observation noise whose six diagonal
\* entries are strictly positive, whatever the startup phase, the mag-fresh
\* flag and the samples, also when it runs before any gyro sample has set
\* w_norm and w_norm still holds what construction left in it.
C19_NoisePositive ==
    [][CorrectRan
         => \A i \in 1..6 : imu'.filter.observationNoiseCov[i] > 0]_vars

\* a correction with a magnetic block, run before any gyro step, with a
\* negative value left in w_norm
C19_Witness ==
    /\ last = [op |-> "acc", accepted |-> TRUE]
    /\ imu.filter.errorCovPre = 0
    /\ imu.w_norm < 0
    /\ MagBlock(imu)
    /\ imu.filter.observationNoiseCov[1] = R_g_startup

\* the terms of the adaptive noise that gyroscope and accelerometer contribute
AdaptiveTerms(k_0, k_w, k_g, w_norm, a_norm) ==
    k_0 + RoundDiv(k_w * w_norm, 1000) + RoundDiv(k_g * Abs(g - a_norm), 100)

\* C20: a correction is handed the startup constants (R_g_startup three times,
\* R_y_startup three times) exactly when startupTime > 0 as it runs; otherwise
\* it is handed the adaptive R_g on the first three entries and, on the last
\* three, R_y = 1 exactly when mag-fresh is false and the adaptive R_y, which
\* is at least its gyroscope, accelerometer and magnitude terms, when it is true.
C20_StartupNoiseIffStartup ==
    [][CorrectRan
         => LET R == imu'.filter.observationNoiseCov
            IN /\ imu.startupTime > 0
                    <=> R = <<R_g_startup, R_g_startup, R_g_startup,
                              R_y_startup, R_y_startup, R_y_startup>>
               /\ imu.startupTime <= 0
                    => /\ R[1] = AdaptiveTerms(R_g_k_0, R_g_k_w, R_g_k_g,
                                               imu.w_norm, Length3(sample'.now))
                       /\ R[2] = R[1] /\ R[3] = R[1]
                       /\ R[5] = R[4] /\ R[6] = R[4]
                       /\ R[4] = QS <=> ~imu.magDataReady
                       /\ imu.magDataReady
                            => R[4] >= AdaptiveTerms(R_y_k_0, R_y_k_w, R_y_k_g,
                                                     imu.w_norm, Length3(sample'.now))
                                       + RoundDiv(R_y_k_n * Abs(imu.m_norm - imu'.m_norm_mean),
                                                  100)]_vars

\* a correction with fresh magnetometer data right after the startup second
C20_Witness ==
    /\ last = [op |-> "acc", accepted |-> TRUE]
    /\ imu.startupTime = 0
    /\ MagBlock(imu)
    /\ imu.filter.observationNoiseCov[4] >= R_y_k_0
    /\ imu.filter.observationNoiseCov[1] >= R_g_k_0

====
